---- MODULE Spec2Model ----
(***************************************************************************)
(* Model of awx/ui_next/src/util/qs.js: the query-string codec             *)
(* (parseQueryString, encodeQueryString, encodeNonDefaultQueryString) and  *)
(* the parameter algebra (addParams, removeParams).                        *)
(*                                                                         *)
(* JavaScript strings are sequences of one-character strings, so that      *)
(* splitting, prefix tests, percent-encoding and integer parsing are       *)
(* computed character by character as the code computes them.              *)
(* JavaScript values are tagged records [t, v]; a JavaScript object is the *)
(* sequence of its own [k, v] entries in insertion order.                  *)
(***************************************************************************)
EXTENDS Integers, Sequences, FiniteSets

VARIABLES
  listConfig,   \* the Configuration of the list view (getQSConfig's result)
  listParams,   \* the parameter object the list view holds
  startParams,  \* the parameter object a chain of algebra calls started from
  otherConfig,  \* the Configuration of a second list on the same page
  otherParams,  \* the parameter object of that second list
  search,       \* the query string in the address bar (a string, or undefined)
  searchSrc,    \* how search was produced: typed by hand, or encoded from which objects
  call,         \* the last call of an exported function: arguments before and after, result
  steps         \* number of addParams/removeParams calls made so far

vars == <<listConfig, listParams, startParams, otherConfig, otherParams, search, searchSrc, call, steps>>

(***************************************************************************)
(* JavaScript values                                                       *)
(***************************************************************************)
Str(s) == [t |-> "str", v |-> s]
Num(n) == [t |-> "num", v |-> n]
Arr(xs) == [t |-> "arr", v |-> xs]
Obj(es) == [t |-> "obj", v |-> es]
NaN == [t |-> "nan", v |-> <<>>]
Null == [t |-> "null", v |-> <<>>]
Undefined == [t |-> "undef", v |-> <<>>]
\* an exception leaving the call
Throw(name) == [t |-> "throw", v |-> name]

IsArray(x) == x.t = "arr"
IsThrow(x) == x.t = "throw"

\* ToBoolean: "", 0, NaN, null and undefined are falsy
Truthy(x) ==
  CASE x.t = "str" -> x.v # <<>>
    [] x.t = "num" -> x.v # 0
    [] x.t \in {"arr", "obj"} -> TRUE
    [] OTHER -> FALSE

\* ===, for two values that are not the same object: primitives by type and
\* value (NaN equals nothing), two distinct arrays are never equal
StrictEq(a, b) ==
  /\ a.t = b.t
  /\ a.t \in {"str", "num", "null", "undef"}
  /\ a.v = b.v

(***************************************************************************)
(* Strings                                                                 *)
(***************************************************************************)
\* the characters of the model in UTF-16 code unit order
Ascii ==
  <<" ", "#", "%", "&", "+", ",", "-", ".",
    "0", "1", "2", "3", "4", "5", "6", "7", "8", "9", "=", "?",
    "A", "B", "C", "D", "E", "F", "I", "N", "_",
    "a", "b", "c", "d", "e", "f", "g", "h", "i", "j", "k", "l", "m",
    "n", "o", "p", "q", "r", "s", "t", "u", "v", "w", "x", "y", "z">>

Code(c) == CHOOSE i \in 1..Len(Ascii) : Ascii[i] = c

DecimalDigits == <<"0", "1", "2", "3", "4", "5", "6", "7", "8", "9">>
IsDigit(c) == \E i \in 1..10 : DecimalDigits[i] = c
DigitValue(c) == (CHOOSE i \in 1..10 : DecimalDigits[i] = c) - 1
HexDigits ==
  {DecimalDigits[i] : i \in 1..10} \cup {"a", "b", "c", "d", "e", "f", "A", "B", "C", "D", "E", "F"}

RECURSIVE LexLess(_, _)
\* a < b for strings (the default comparison of Array.prototype.sort)
LexLess(a, b) ==
  IF b = <<>> THEN FALSE
  ELSE IF a = <<>> THEN TRUE
  ELSE IF a[1] # b[1] THEN Code(a[1]) < Code(b[1])
  ELSE LexLess(Tail(a), Tail(b))

RECURSIVE InsertSorted(_, _)
InsertSorted(sorted, s) ==
  IF sorted = <<>> THEN <<s>>
  ELSE IF LexLess(s, sorted[1]) THEN <<s>> \o sorted
  ELSE <<sorted[1]>> \o InsertSorted(Tail(sorted), s)

RECURSIVE Sort(_)
\* Array.prototype.sort() on an array of distinct strings
Sort(ss) == IF ss = <<>> THEN <<>> ELSE InsertSorted(Sort(Tail(ss)), ss[1])

RECURSIVE Join(_, _)
\* Array.prototype.join
Join(parts, sep) ==
  IF parts = <<>> THEN <<>>
  ELSE IF Len(parts) = 1 THEN parts[1]
  ELSE parts[1] \o sep \o Join(Tail(parts), sep)

RECURSIVE Split(_, _)
\* String.prototype.split on a one-character separator
Split(s, c) ==
  IF \A i \in 1..Len(s) : s[i] # c THEN <<s>>
  ELSE LET i == CHOOSE i \in 1..Len(s) : s[i] = c /\ \A j \in 1..(i - 1) : s[j] # c
       IN <<SubSeq(s, 1, i - 1)>> \o Split(SubSeq(s, i + 1, Len(s)), c)

StartsWith(s, prefix) ==
  Len(prefix) <= Len(s) /\ SubSeq(s, 1, Len(prefix)) = prefix

\* String.prototype.substr(start) with a zero-based start
Substr(s, start) == SubSeq(s, start + 1, Len(s))

RECURSIVE DigitsOf(_)
DigitsOf(n) ==
  IF n < 10 THEN <<DecimalDigits[n + 1]>>
  ELSE DigitsOf(n \div 10) \o <<DecimalDigits[(n % 10) + 1]>>

RECURSIVE ToString(_)
\* the string conversion done by a template literal and by encodeURIComponent
ToString(x) ==
  CASE x.t = "str" -> x.v
    [] x.t = "num" -> IF x.v < 0 THEN <<"-">> \o DigitsOf(0 - x.v) ELSE DigitsOf(x.v)
    [] x.t = "nan" -> <<"N", "a", "N">>
    [] x.t = "null" -> <<"n", "u", "l", "l">>
    [] x.t = "undef" -> <<"u", "n", "d", "e", "f", "i", "n", "e", "d">>
    [] x.t = "arr" ->
         Join([i \in 1..Len(x.v) |->
                 IF x.v[i].t \in {"null", "undef"} THEN <<>> ELSE ToString(x.v[i])],
              <<",">>)

\* the escape of one character: everything but letters, digits and - _ . ! ~ * ' ( )
Escape(c) ==
  CASE c = "%" -> <<"%", "2", "5">>
    [] c = "&" -> <<"%", "2", "6">>
    [] c = "=" -> <<"%", "3", "D">>
    [] c = "?" -> <<"%", "3", "F">>
    [] c = "," -> <<"%", "2", "C">>
    [] c = " " -> <<"%", "2", "0">>
    [] c = "#" -> <<"%", "2", "3">>
    [] c = "+" -> <<"%", "2", "B">>
    [] OTHER -> <<c>>

\* the character of an escape %h1h2; an escape outside the model's alphabet
\* decodes to the placeholder "#"
Unescape(h1, h2) ==
  CASE h1 = "2" /\ h2 = "5" -> "%"
    [] h1 = "2" /\ h2 = "6" -> "&"
    [] h1 = "3" /\ h2 \in {"D", "d"} -> "="
    [] h1 = "3" /\ h2 \in {"F", "f"} -> "?"
    [] h1 = "2" /\ h2 \in {"C", "c"} -> ","
    [] h1 = "2" /\ h2 = "0" -> " "
    [] h1 = "2" /\ h2 \in {"E", "e"} -> "."
    [] h1 = "2" /\ h2 \in {"B", "b"} -> "+"
    [] OTHER -> "#"

RECURSIVE EscapeAll(_)
EscapeAll(s) == IF s = <<>> THEN <<>> ELSE Escape(s[1]) \o EscapeAll(Tail(s))

\* encodeURIComponent(x): a string
encodeURIComponent(x) == EscapeAll(ToString(x))

RECURSIVE UnescapeAll(_)
\* [ok, s]: ok is FALSE when a % is not followed by two hexadecimal digits
UnescapeAll(s) ==
  IF s = <<>> THEN [ok |-> TRUE, s |-> <<>>]
  ELSE IF s[1] # "%"
    THEN LET r == UnescapeAll(Tail(s)) IN [ok |-> r.ok, s |-> <<s[1]>> \o r.s]
  ELSE IF Len(s) >= 3 /\ s[2] \in HexDigits /\ s[3] \in HexDigits
    THEN LET r == UnescapeAll(SubSeq(s, 4, Len(s)))
         IN [ok |-> r.ok, s |-> <<Unescape(s[2], s[3])>> \o r.s]
  ELSE [ok |-> FALSE, s |-> <<>>]

\* decodeURIComponent(x): a string value, or the URIError it throws
decodeURIComponent(x) ==
  LET r == UnescapeAll(ToString(x))
  IN IF r.ok THEN Str(r.s) ELSE Throw("URIError")

RECURSIVE TrimLeft(_)
TrimLeft(s) == IF s # <<>> /\ s[1] = " " THEN TrimLeft(Tail(s)) ELSE s

RECURSIVE LeadingDigits(_)
LeadingDigits(s) ==
  IF s # <<>> /\ IsDigit(s[1]) THEN <<s[1]>> \o LeadingDigits(Tail(s)) ELSE <<>>

RECURSIVE DecimalValue(_, _)
DecimalValue(ds, acc) ==
  IF ds = <<>> THEN acc ELSE DecimalValue(Tail(ds), (10 * acc) + DigitValue(ds[1]))

\* parseInt(x, 10): leading white space, an optional sign, then the longest
\* run of digits; NaN when there is no digit
parseInt(x) ==
  LET s == TrimLeft(ToString(x))
      signed == s # <<>> /\ s[1] \in {"-", "+"}
      ds == LeadingDigits(IF signed THEN Tail(s) ELSE s)
  IN IF ds = <<>> THEN NaN
     ELSE IF signed /\ s[1] = "-" THEN Num(0 - DecimalValue(ds, 0))
     ELSE Num(DecimalValue(ds, 0))

(***************************************************************************)
(* Objects: Obj(es) with es the sequence of own entries [k, v], keys       *)
(* distinct, in insertion order                                            *)
(***************************************************************************)
Entry(key, value) == [k |-> key, v |-> value]

\* Object.keys(o)
Keys(o) == [i \in 1..Len(o.v) |-> o.v[i].k]

Has(o, key) == \E i \in 1..Len(o.v) : o.v[i].k = key

\* o[key]: undefined for a key the object does not have
Get(o, key) ==
  IF Has(o, key) THEN o.v[CHOOSE i \in 1..Len(o.v) : o.v[i].k = key].v ELSE Undefined

\* o[key] = value: an existing key keeps its place, a new key goes last
Put(o, key, value) ==
  IF Has(o, key)
    THEN Obj([i \in 1..Len(o.v) |-> IF o.v[i].k = key THEN Entry(key, value) ELSE o.v[i]])
    ELSE Obj(Append(o.v, Entry(key, value)))

RECURSIVE PutAll(_, _)
PutAll(o, es) == IF es = <<>> THEN o ELSE PutAll(Put(o, es[1].k, es[1].v), Tail(es))

\* { ...a, ...b }
Spread(a, b) == PutAll(PutAll(Obj(<<>>), a.v), b.v)

\* the entries [key, params[key]] of the keys that pass the test
EntriesWhere(o, Test(_)) == SelectSeq(o.v, LAMBDA e : Test(e.k))

(***************************************************************************)
(* getQSConfig                                                             *)
(***************************************************************************)
S_page == <<"p", "a", "g", "e">>
S_page_size == <<"p", "a", "g", "e", "_", "s", "i", "z", "e">>
S_order_by == <<"o", "r", "d", "e", "r", "_", "b", "y">>
S_name == <<"n", "a", "m", "e">>
S_modified == <<"m", "o", "d", "i", "f", "i", "e", "d">>
S_created == <<"c", "r", "e", "a", "t", "e", "d">>

\* the default values of getQSConfig's parameters
DefaultDefaultParams ==
  Obj(<<Entry(S_page, Num(1)), Entry(S_page_size, Num(5)), Entry(S_order_by, Str(S_name))>>)
DefaultIntegerFields == Arr(<<Str(S_page), Str(S_page_size)>>)
DefaultDateFields == Arr(<<Str(S_modified), Str(S_created)>>)

\* getQSConfig(namespace, defaultParams, integerFields): an undefined argument
\* takes its default; the Configuration, or the Error thrown without a namespace
getQSConfig(namespace, defaultParams, integerFields) ==
  IF ~Truthy(namespace) THEN Throw("Error")
  ELSE [t |-> "config",
        namespace |-> namespace,
        defaultParams |-> IF defaultParams.t = "undef" THEN DefaultDefaultParams ELSE defaultParams,
        integerFields |-> IF integerFields.t = "undef" THEN DefaultIntegerFields ELSE integerFields,
        dateFields |-> DefaultDateFields]

(***************************************************************************)
(* Helpers of the parameter algebra                                        *)
(***************************************************************************)
\* one step of arrayToObject's reduce; acc[key] is probed by truthiness
arrayToObjectStep(acc, e) ==
  LET cur == Get(acc, e.k)
  IN IF Truthy(cur) /\ IsArray(cur) THEN Put(acc, e.k, Arr(Append(cur.v, e.v)))
     ELSE IF Truthy(cur) THEN Put(acc, e.k, Arr(<<cur, e.v>>))
     ELSE Put(acc, e.k, e.v)

RECURSIVE arrayToObjectFrom(_, _)
arrayToObjectFrom(acc, es) ==
  IF es = <<>> THEN acc ELSE arrayToObjectFrom(arrayToObjectStep(acc, es[1]), Tail(es))

arrayToObject(entriesArr) == arrayToObjectFrom(Obj(<<>>), entriesArr)

namespaceParams(namespace, params) ==
  IF ~Truthy(namespace) THEN params
  ELSE Obj([i \in 1..Len(params.v) |->
              Entry(ToString(namespace) \o <<".">> \o params.v[i].k, params.v[i].v)])

denamespaceParams(namespace, params) ==
  IF ~Truthy(namespace) THEN params
  ELSE PutAll(Obj(<<>>),
              [i \in 1..Len(params.v) |->
                 Entry(Substr(params.v[i].k, Len(namespace.v) + 1), params.v[i].v)])

\* a slip: the prefix test without the separating "."
namespaceMatchesPrefix(namespace, fieldname) ==
  IF ~Truthy(namespace) THEN \A i \in 1..Len(fieldname) : fieldname[i] # "."
  ELSE StartsWith(fieldname, ToString(namespace))

namespaceMatches(namespace, fieldname) ==
  IF ~Truthy(namespace) THEN \A i \in 1..Len(fieldname) : fieldname[i] # "."
  ELSE StartsWith(fieldname, ToString(namespace) \o <<".">>)

\* two.indexOf(val) > -1
Includes(two, val) == \E i \in 1..Len(two.v) : StrictEq(two.v[i], val)

\* a slip: the containment test of two sequences the other way round
paramValueIsEqualReversed(one, two) ==
  IF IsArray(one) /\ IsArray(two)
    THEN \A i \in 1..Len(two.v) : Includes(one, two.v[i])
  ELSE IF (one.t = "str" /\ two.t = "str") \/ (one.t \in {"num", "nan"} /\ two.t \in {"num", "nan"})
    THEN StrictEq(one, two)
  ELSE FALSE

\* a slip: two scalars compared by type alone
paramValueIsEqualByType(one, two) ==
  IF IsArray(one) /\ IsArray(two)
    THEN \A i \in 1..Len(one.v) : Includes(two, one.v[i])
  ELSE (one.t = "str" /\ two.t = "str") \/ (one.t \in {"num", "nan"} /\ two.t \in {"num", "nan"})

paramValueIsEqual(one, two) ==
  IF IsArray(one) /\ IsArray(two)
    THEN \A i \in 1..Len(one.v) : Includes(two, one.v[i])
  ELSE IF (one.t = "str" /\ two.t = "str") \/ (one.t \in {"num", "nan"} /\ two.t \in {"num", "nan"})
    THEN StrictEq(one, two)
  ELSE FALSE

getDefaultParams(params, defaults) ==
  arrayToObject(EntriesWhere(params, LAMBDA key : Has(defaults, key)))

getNonDefaultParams(params, defaults) ==
  arrayToObject(EntriesWhere(params, LAMBDA key : ~Has(defaults, key)))

\* the value getMergedParams' callback returns for a key
mergedValue(oldVal, newVal) ==
  IF Truthy(newVal)
    THEN IF IsArray(oldVal) THEN Arr(Append(oldVal.v, newVal)) ELSE Arr(<<oldVal, newVal>>)
    ELSE oldVal

getMergedParams(oldParams, newParams) ==
  arrayToObject([i \in 1..Len(oldParams.v) |->
                   Entry(oldParams.v[i].k,
                         mergedValue(oldParams.v[i].v, Get(newParams, oldParams.v[i].k)))])

\* the argument oldParams as getMergedParams leaves it: oldVal.push(newVal)
\* pushes onto the array that oldParams[key] holds
getMergedParamsLeaves(oldParams, newParams) ==
  Obj([i \in 1..Len(oldParams.v) |->
         IF Truthy(Get(newParams, oldParams.v[i].k)) /\ IsArray(oldParams.v[i].v)
           THEN Entry(oldParams.v[i].k,
                      Arr(Append(oldParams.v[i].v.v, Get(newParams, oldParams.v[i].k))))
           ELSE oldParams.v[i]])

\* a slip: every new parameter counted as remaining, merged or not
getRemainingNewParamsUnfiltered(mergedParams, newParams) == arrayToObject(newParams.v)

getRemainingNewParams(mergedParams, newParams) ==
  arrayToObject(EntriesWhere(newParams, LAMBDA key : ~Has(mergedParams, key)))

(***************************************************************************)
(* addParams, removeParams                                                 *)
(***************************************************************************)
addParams(config, oldParams, paramsToAdd) ==
  LET namespacedOldParams == namespaceParams(config.namespace, oldParams)
      namespacedParamsToAdd == namespaceParams(config.namespace, paramsToAdd)
      namespacedDefaultParams == namespaceParams(config.namespace, config.defaultParams)
      namespacedOldParamsNotDefaults ==
        getNonDefaultParams(namespacedOldParams, namespacedDefaultParams)
      namespacedMergedParams ==
        getMergedParams(namespacedOldParamsNotDefaults, namespacedParamsToAdd)
  IN denamespaceParams(
       config.namespace,
       Spread(Spread(getDefaultParams(namespacedOldParams, namespacedDefaultParams),
                     namespacedMergedParams),
              getRemainingNewParams(namespacedMergedParams, namespacedParamsToAdd)))

\* the argument oldParams as addParams leaves it. namespaceParams and
\* arrayToObject copy the values of oldParams by reference, so the arrays of
\* namespacedOldParamsNotDefaults are the arrays of oldParams, and the push
\* in getMergedParams lands in them.
addParamsLeaves(config, oldParams, paramsToAdd) ==
  LET namespacedOldParams == namespaceParams(config.namespace, oldParams)
      namespacedParamsToAdd == namespaceParams(config.namespace, paramsToAdd)
      namespacedDefaultParams == namespaceParams(config.namespace, config.defaultParams)
      left == getMergedParamsLeaves(
                getNonDefaultParams(namespacedOldParams, namespacedDefaultParams),
                namespacedParamsToAdd)
  IN Obj([i \in 1..Len(oldParams.v) |->
            IF Has(left, namespacedOldParams.v[i].k)
              THEN Entry(oldParams.v[i].k, Get(left, namespacedOldParams.v[i].k))
              ELSE oldParams.v[i]])

RECURSIVE paramsEntriesOf(_)
\* removeParams' first loop: one entry per element of an array value
paramsEntriesOf(es) ==
  IF es = <<>> THEN <<>>
  ELSE (IF IsArray(es[1].v)
          THEN [j \in 1..Len(es[1].v.v) |-> Entry(es[1].k, es[1].v.v[j])]
          ELSE <<es[1]>>)
       \o paramsEntriesOf(Tail(es))

\* a slip: the default fields left without a value are not put back
removeParamsUnpinned(config, oldParams, paramsToRemove) ==
  arrayToObject(
    SelectSeq(paramsEntriesOf(oldParams.v),
              LAMBDA e : ~\E i \in 1..Len(paramsToRemove.v) :
                            /\ e.k = paramsToRemove.v[i].k
                            /\ StrictEq(e.v, paramsToRemove.v[i].v)))

removeParams(config, oldParams, paramsToRemove) ==
  LET paramsEntries == paramsEntriesOf(oldParams.v)
      paramsToRemoveEntries == paramsToRemove.v
      remainingEntries ==
        SelectSeq(paramsEntries,
                  LAMBDA e : ~\E i \in 1..Len(paramsToRemoveEntries) :
                                /\ e.k = paramsToRemoveEntries[i].k
                                /\ StrictEq(e.v, paramsToRemoveEntries[i].v))
      remainingObject == arrayToObject(remainingEntries)
      defaultEntriesLeftover ==
        SelectSeq(config.defaultParams.v, LAMBDA e : ~Truthy(Get(remainingObject, e.k)))
  IN arrayToObject(remainingEntries \o defaultEntriesLeftover)

(***************************************************************************)
(* parseQueryString                                                        *)
(***************************************************************************)
parseValue(config, key, rawValue) ==
  IF Truthy(config.integerFields)
     /\ \E i \in 1..Len(config.integerFields.v) : StrictEq(config.integerFields.v[i], key)
    THEN parseInt(rawValue)
    ELSE decodeURIComponent(rawValue)

\* the forEach callback of stringToObject on one piece of the split string;
\* params is the object built so far, or the exception already thrown
stringToObjectStep(config, params, piece) ==
  IF IsThrow(params) THEN params
  ELSE
    LET parts == Split(piece, "=")
        nsKey == parts[1]
        rawValue == IF Len(parts) >= 2 THEN Str(parts[2]) ELSE Undefined
    IN IF nsKey = <<>> \/ ~namespaceMatches(config.namespace, nsKey) THEN params
       ELSE
         LET key == decodeURIComponent(Str(Substr(nsKey, Len(config.namespace.v) + 1)))
         IN IF IsThrow(key) THEN key
            ELSE
              LET value == parseValue(config, key, rawValue)
                  cur == Get(params, key.v)
              IN IF IsThrow(value) THEN value
                 ELSE IF ~Truthy(cur) THEN Put(params, key.v, value)
                 ELSE IF IsArray(cur) THEN Put(params, key.v, Arr(Append(cur.v, value)))
                 ELSE Put(params, key.v, Arr(<<cur, value>>))

RECURSIVE stringToObjectFrom(_, _, _)
stringToObjectFrom(config, params, pieces) ==
  IF pieces = <<>> THEN params
  ELSE stringToObjectFrom(config, stringToObjectStep(config, params, pieces[1]), Tail(pieces))

stringToObject(config, qs) ==
  stringToObjectFrom(
    config,
    Obj(<<>>),
    Split(IF qs.v # <<>> /\ qs.v[1] = "?" THEN Tail(qs.v) ELSE qs.v, "&"))

addDefaultsToObject(config, params) == Spread(config.defaultParams, params)

\* the parameter object, or the exception thrown
parseQueryString(config, queryString) ==
  IF ~Truthy(queryString) THEN config.defaultParams
  ELSE LET params == stringToObject(config, queryString)
       IN IF IsThrow(params) THEN params ELSE addDefaultsToObject(config, params)

(***************************************************************************)
(* encodeQueryString, encodeNonDefaultQueryString                          *)
(***************************************************************************)
encodeValue(key, value) ==
  IF IsArray(value)
    THEN Join([i \in 1..Len(value.v) |->
                 encodeURIComponent(Str(key)) \o <<"=">> \o encodeURIComponent(value.v[i])],
              <<"&">>)
    ELSE encodeURIComponent(Str(key)) \o <<"=">> \o encodeURIComponent(value)

\* .sort().filter(not null).map(encodeValue).join('&') of both encoders
encodeKeys(keys, params) ==
  LET kept == SelectSeq(Sort(keys), LAMBDA key : Get(params, key).t # "null")
  IN Str(Join([i \in 1..Len(kept) |-> encodeValue(kept[i], Get(params, kept[i]))], <<"&">>))

encodeQueryString(params) ==
  IF ~Truthy(params) THEN Str(<<>>) ELSE encodeKeys(Keys(params), params)

\* the keys encodeNonDefaultQueryString keeps before it sorts them
namespacedParamsWithoutDefaultsKeys(config, params) ==
  LET namespacedParams == namespaceParams(config.namespace, params)
      namespacedDefaults == namespaceParams(config.namespace, config.defaultParams)
  IN SelectSeq(Keys(namespacedParams),
               LAMBDA key : \/ ~Has(namespacedDefaults, key)
                            \/ ~paramValueIsEqual(Get(namespacedParams, key),
                                                  Get(namespacedDefaults, key)))

encodeNonDefaultQueryString(config, params) ==
  IF ~Truthy(params) THEN Str(<<>>)
  ELSE encodeKeys(namespacedParamsWithoutDefaultsKeys(config, params),
                  namespaceParams(config.namespace, params))

(***************************************************************************)
(* Inputs                                                                  *)
(***************************************************************************)
S_status == <<"s", "t", "a", "t", "u", "s">>
S_a == <<"a">>
S_b == <<"b">>
S_c == <<"c">>
S_foo == <<"f", "o", "o">>
S_o == <<"o">>

\* getQSConfig("o"): every default
cfgO == getQSConfig(Str(S_o), Undefined, Undefined)
\* a list whose default ordering is a sequence
cfgT ==
  getQSConfig(Str(<<"t">>),
              Obj(<<Entry(S_order_by, Arr(<<Str(S_a), Str(S_b)>>))>>),
              Arr(<<Str(S_page)>>))

\* longest chain of addParams/removeParams calls the model follows
MaxSteps == 2

AlgebraConfigs == {cfgO, cfgT}

\* values of the filter field in the objects a chain starts from
StartStatus ==
  {Str(S_a), Str(<<>>), Num(0),
   Arr(<<>>), Arr(<<Str(S_a)>>), Arr(<<Str(S_a), Str(S_b)>>),
   Arr(<<Str(<<>>), Str(S_a)>>), Arr(<<Str(S_a), Str(S_b), Str(S_c)>>)}

\* values of the default field order_by in the objects a chain starts from
StartOrderBy == {Str(<<>>), Arr(<<Str(S_b), Str(S_c)>>), Arr(<<Str(<<>>), Str(S_c)>>)}

\* the parameter objects a chain starts from: the decode of no query string,
\* objects over the defaults, and objects without the default keys
StartParams(config) ==
  {parseQueryString(config, Undefined)}
    \cup {Spread(config.defaultParams, Obj(<<Entry(S_status, v)>>)) : v \in StartStatus}
    \cup {Put(Spread(config.defaultParams, Obj(<<Entry(S_status, Str(S_a))>>)), S_order_by, w) :
            w \in StartOrderBy}
    \cup {Obj(<<Entry(S_status, Str(S_a))>>),
          Obj(<<Entry(S_status, Arr(<<Str(S_a), Str(S_b), Str(S_c)>>))>>)}

\* the one-entry objects passed as paramsToAdd and paramsToRemove
AlgebraKeys == {S_status, S_order_by}
AlgebraValues == {Str(<<>>), Str(S_b), Str(S_c), Num(0)}
OneEntryParams == {Obj(<<Entry(key, v)>>) : key \in AlgebraKeys, v \in AlgebraValues}

(***************************************************************************)
(* The record of a call                                                    *)
(***************************************************************************)
NoCall ==
  [op |-> "none", who |-> "none", config |-> Null, arg |-> Null, arg2 |-> Null,
   argLeft |-> Null, ret |-> Null, again |-> Null, src |-> Null,
   prevOp |-> "none", prevArg |-> Null, prevArg2 |-> Null]

Typed == [kind |-> "typed", params |-> Null, other |-> Null]

(***************************************************************************)
(* The parameter algebra as a state machine                                *)
(***************************************************************************)
Init ==
  /\ listConfig \in AlgebraConfigs
  /\ listParams \in StartParams(listConfig)
  /\ startParams = listParams
  /\ otherConfig = cfgT
  /\ otherParams = Null
  /\ search = Undefined
  /\ searchSrc = Typed
  /\ call = NoCall
  /\ steps = 0

\* the list view calls addParams on the object it holds and keeps the result;
\* again is the result of the same call made once more on the same argument objects
AddParams(paramsToAdd) ==
  /\ steps < MaxSteps
  /\ call' = [NoCall EXCEPT
                !.op = "addParams", !.who = "list", !.config = listConfig,
                !.arg = listParams, !.arg2 = paramsToAdd,
                !.argLeft = addParamsLeaves(listConfig, listParams, paramsToAdd),
                !.ret = addParams(listConfig, listParams, paramsToAdd),
                !.again = addParams(listConfig,
                                    addParamsLeaves(listConfig, listParams, paramsToAdd),
                                    paramsToAdd),
                !.prevOp = call.op, !.prevArg = call.arg, !.prevArg2 = call.arg2]
  /\ listParams' = addParams(listConfig, listParams, paramsToAdd)
  /\ steps' = steps + 1
  /\ UNCHANGED <<listConfig, startParams, otherConfig, otherParams, search, searchSrc>>

\* removeParams builds its entries afresh and pushes onto none of its
\* arguments' arrays, so oldParams is left as it was
RemoveParams(paramsToRemove) ==
  /\ steps < MaxSteps
  /\ call' = [NoCall EXCEPT
                !.op = "removeParams", !.who = "list", !.config = listConfig,
                !.arg = listParams, !.arg2 = paramsToRemove,
                !.argLeft = listParams,
                !.ret = removeParams(listConfig, listParams, paramsToRemove),
                !.again = removeParams(listConfig, listParams, paramsToRemove),
                !.prevOp = call.op, !.prevArg = call.arg, !.prevArg2 = call.arg2]
  /\ listParams' = removeParams(listConfig, listParams, paramsToRemove)
  /\ steps' = steps + 1
  /\ UNCHANGED <<listConfig, startParams, otherConfig, otherParams, search, searchSrc>>

Next ==
  \/ \E paramsToAdd \in OneEntryParams : AddParams(paramsToAdd)
  \/ \E paramsToRemove \in OneEntryParams : RemoveParams(paramsToRemove)

Spec == Init /\ [][Next]_vars

(***************************************************************************)
(* The codec as a state machine: a page with two lists sharing one query   *)
(* string                                                                  *)
(***************************************************************************)
S_ob == <<"o", "b">>
S_odotb == <<"o", ".", "b">>
S_opct == <<"o", "%">>
S_opct25 == <<"o", "%", "2", "5">>

SeqAB == Obj(<<Entry(S_order_by, Arr(<<Str(S_a), Str(S_b)>>))>>)
SeqA == Obj(<<Entry(S_order_by, Arr(<<Str(S_a)>>))>>)

cfgOb == getQSConfig(Str(S_ob), SeqAB, Arr(<<Str(S_page)>>))
cfgDot == getQSConfig(Str(S_odotb), SeqA, Arr(<<Str(S_page)>>))
cfgPct == getQSConfig(Str(S_opct), SeqA, Arr(<<Str(S_page)>>))
cfgPct25 == getQSConfig(Str(S_opct25), SeqAB, Arr(<<Str(S_page)>>))

\* the Configurations of the two lists of a page: distinct namespaces
PageConfigs ==
  {<<cfgO, cfgOb>>, <<cfgOb, cfgO>>, <<cfgO, cfgDot>>, <<cfgDot, cfgO>>,
   <<cfgPct25, cfgPct>>}

\* {page:2, page_size:5, order_by:"name", name:"foo"}
ParamsPage2Foo ==
  Obj(<<Entry(S_page, Num(2)), Entry(S_page_size, Num(5)),
        Entry(S_order_by, Str(S_name)), Entry(S_name, Str(S_foo))>>)

\* the parameter objects handed to the encoders
UrlParams ==
  {Null,
   Obj(<<>>),
   Obj(<<Entry(S_name, Str(<<"a", "&", "=", "%", " ", "b">>))>>),
   Obj(<<Entry(S_name, Arr(<<Str(S_a), Str(S_b)>>))>>),
   Obj(<<Entry(S_name, Arr(<<Str(S_b), Str(S_a), Str(S_b)>>))>>),
   Obj(<<Entry(S_name, Arr(<<Str(S_a)>>))>>),
   Obj(<<Entry(S_name, Arr(<<>>)), Entry(S_status, Str(S_a))>>),
   Obj(<<Entry(S_name, Arr(<<Str(<<>>), Str(S_a)>>))>>),
   Obj(<<Entry(S_name, Str(<<>>))>>),
   Obj(<<Entry(S_page, Str(<<"7">>)), Entry(S_name, Num(5))>>),
   Obj(<<Entry(S_page, Arr(<<Num(0), Num(3)>>))>>),
   Obj(<<Entry(S_page, Num(1)), Entry(S_name, Null)>>),
   Obj(<<Entry(<<"n", "=", "&">>, Str(S_a))>>),
   Obj(<<Entry(S_order_by, Arr(<<Str(S_a), Str(S_b)>>)), Entry(S_status, Str(S_c))>>),
   Obj(<<Entry(S_order_by, Arr(<<Str(S_a)>>)), Entry(S_status, Str(S_c))>>),
   Obj(<<Entry(S_order_by, Arr(<<Str(S_b), Str(S_c)>>))>>),
   Obj(<<Entry(S_order_by, Arr(<<>>))>>),
   Obj(<<Entry(S_order_by, Str(S_a))>>),
   Obj(<<Entry(S_order_by, Null)>>)}

\* the parameter objects of the second list
OtherParams ==
  {Obj(<<Entry(S_name, Str(<<"z">>))>>),
   Obj(<<Entry(S_page, Num(3)), Entry(S_order_by, Arr(<<Str(S_c)>>))>>)}

\* "o.page=2&o.name=foo"
QueryPage2Foo ==
  Str(<<"o", ".", "p", "a", "g", "e", "=", "2", "&",
        "o", ".", "n", "a", "m", "e", "=", "f", "o", "o">>)

\* the query strings the routing layer supplies from a hand-edited address
TypedQueries ==
  {Undefined,
   Str(<<>>),
   QueryPage2Foo,
   \* "?o.page=x&o.name": a leading ?, no number on an integer field, no =
   Str(<<"?", "o", ".", "p", "a", "g", "e", "=", "x", "&", "o", ".", "n", "a", "m", "e">>),
   \* "o.name=%": a % without two hexadecimal digits in a value
   Str(<<"o", ".", "n", "a", "m", "e", "=", "%">>),
   \* "ob.%zz=1": the same in a key
   Str(<<"o", "b", ".", "%", "z", "z", "=", "1">>),
   \* "ob.name=a&o.name=&o.name=b&o.b.name=c&ob.name=d=e"
   Str(<<"o", "b", ".", "n", "a", "m", "e", "=", "a", "&",
         "o", ".", "n", "a", "m", "e", "=", "&",
         "o", ".", "n", "a", "m", "e", "=", "b", "&",
         "o", ".", "b", ".", "n", "a", "m", "e", "=", "c", "&",
         "o", "b", ".", "n", "a", "m", "e", "=", "d", "=", "e">>)}

\* the namespaces handed to getQSConfig by a caller
Namespaces == {Undefined, Str(<<>>), Str(S_o)}

\* number of times the model lets the list replace its parameters by a decode
MaxDecodes == 2

InitUrl ==
  /\ \E page \in PageConfigs : listConfig = page[1] /\ otherConfig = page[2]
  /\ listParams \in UrlParams
  /\ startParams = Null
  /\ otherParams \in OtherParams
  /\ search = Undefined
  /\ searchSrc = Typed
  /\ call = NoCall
  /\ steps = 0

\* the routing layer supplies a new query string
Navigate(queryString) ==
  /\ search' = queryString
  /\ searchSrc' = Typed
  /\ call' = [NoCall EXCEPT !.op = "navigate", !.arg = queryString]
  /\ UNCHANGED <<listConfig, listParams, startParams, otherConfig, otherParams, steps>>

\* the list decodes the address bar and, unless the call throws, holds the result
ParseQueryString ==
  /\ steps < MaxDecodes
  /\ steps' = steps + 1
  /\ call' = [NoCall EXCEPT
                !.op = "parseQueryString", !.who = "list", !.config = listConfig,
                !.arg = search, !.argLeft = search,
                !.ret = parseQueryString(listConfig, search),
                !.again = parseQueryString(listConfig, search),
                !.src = searchSrc]
  /\ listParams' = IF IsThrow(parseQueryString(listConfig, search))
                     THEN listParams
                     ELSE parseQueryString(listConfig, search)
  /\ UNCHANGED <<listConfig, startParams, otherConfig, otherParams, search, searchSrc>>

\* the second list decodes the same address bar
ParseOther ==
  /\ call' = [NoCall EXCEPT
                !.op = "parseQueryString", !.who = "other", !.config = otherConfig,
                !.arg = search, !.argLeft = search,
                !.ret = parseQueryString(otherConfig, search),
                !.again = parseQueryString(otherConfig, search),
                !.src = searchSrc]
  /\ UNCHANGED <<listConfig, listParams, startParams, otherConfig, otherParams, search, searchSrc, steps>>

\* the list writes its parameters to the address bar
EncodeNonDefault ==
  /\ call' = [NoCall EXCEPT
                !.op = "encodeNonDefaultQueryString", !.who = "list", !.config = listConfig,
                !.arg = listParams, !.argLeft = listParams,
                !.ret = encodeNonDefaultQueryString(listConfig, listParams),
                !.again = encodeNonDefaultQueryString(listConfig, listParams)]
  /\ search' = encodeNonDefaultQueryString(listConfig, listParams)
  /\ searchSrc' = [kind |-> "encoded", params |-> listParams, other |-> Null]
  /\ UNCHANGED <<listConfig, listParams, startParams, otherConfig, otherParams, steps>>

\* both lists are encoded and the two strings joined with &
EncodeJoined ==
  /\ call' = [NoCall EXCEPT
                !.op = "encodeNonDefaultQueryString", !.who = "other", !.config = otherConfig,
                !.arg = otherParams, !.argLeft = otherParams,
                !.ret = encodeNonDefaultQueryString(otherConfig, otherParams),
                !.again = encodeNonDefaultQueryString(otherConfig, otherParams)]
  /\ search' = Str(encodeNonDefaultQueryString(listConfig, listParams).v
                   \o <<"&">>
                   \o encodeNonDefaultQueryString(otherConfig, otherParams).v)
  /\ searchSrc' = [kind |-> "joined", params |-> listParams, other |-> otherParams]
  /\ UNCHANGED <<listConfig, listParams, startParams, otherConfig, otherParams, steps>>

\* the API client encodes the list's parameters for a request
EncodeQueryString ==
  /\ call' = [NoCall EXCEPT
                !.op = "encodeQueryString", !.who = "list",
                !.arg = listParams, !.argLeft = listParams,
                !.ret = encodeQueryString(listParams),
                !.again = encodeQueryString(listParams)]
  /\ UNCHANGED <<listConfig, listParams, startParams, otherConfig, otherParams, search, searchSrc, steps>>

\* before the page is first routed, a view builds a Configuration with every default
GetQSConfig(namespace) ==
  /\ search = Undefined
  /\ steps = 0
  /\ call' = [NoCall EXCEPT
                !.op = "getQSConfig", !.arg = namespace, !.argLeft = namespace,
                !.ret = getQSConfig(namespace, Undefined, Undefined),
                !.again = getQSConfig(namespace, Undefined, Undefined)]
  /\ UNCHANGED <<listConfig, listParams, startParams, otherConfig, otherParams, search, searchSrc, steps>>

NextUrl ==
  \/ \E queryString \in TypedQueries : Navigate(queryString)
  \/ ParseQueryString
  \/ ParseOther
  \/ EncodeNonDefault
  \/ EncodeJoined
  \/ EncodeQueryString
  \/ \E namespace \in Namespaces : GetQSConfig(namespace)

SpecUrl == InitUrl /\ [][NextUrl]_vars

(***************************************************************************)
(* Properties of the parameter algebra (checked under Spec)                *)
(***************************************************************************)
KeySet(o) == {o.v[i].k : i \in 1..Len(o.v)}

\* the same keys with the same values, whatever the order of the keys
SameObject(a, b) ==
  /\ a.t = "obj"
  /\ b.t = "obj"
  /\ KeySet(a) = KeySet(b)
  /\ \A key \in KeySet(a) : Get(a, key) = Get(b, key)

HasEveryDefaultKey(config, o) == \A key \in KeySet(config.defaultParams) : Has(o, key)

IsScalar(x) == x.t \in {"str", "num"}

\* the values a field holds: the elements of a sequence, the scalar itself,
\* nothing for an absent field
Elements(x) ==
  IF IsArray(x) THEN x.v ELSE IF x.t = "undef" THEN <<>> ELSE <<x>>

Occurs(x, v) == \E i \in 1..Len(Elements(x)) : StrictEq(Elements(x)[i], v)

AlgebraCall == call.op \in {"addParams", "removeParams"}

\* C2: no operation changes an argument object: after the call oldParams holds
\* what it held before, and the same call made again on the same argument
\* objects returns the same result.
C2_ArgumentsUntouched ==
  call.op \in {"addParams", "removeParams"}
    => /\ call.argLeft = call.arg
       /\ call.again = call.ret

\* C3: a chain of addParams/removeParams calls that starts from an object
\* holding every default key ends in an object holding every default key.
C3_DefaultPinning ==
  (AlgebraCall /\ HasEveryDefaultKey(listConfig, startParams))
    => (call.ret.t = "obj" /\ listParams = call.ret /\ HasEveryDefaultKey(listConfig, listParams))

\* C3 witness: two calls after such a start, the last one removing the only
\* value of the default field order_by, which is then back at its default.
C3_Witness ==
  /\ steps = 2
  /\ HasEveryDefaultKey(listConfig, startParams)
  /\ call.op = "removeParams"
  /\ call.prevOp = "addParams"
  /\ Has(call.arg2, S_order_by)
  /\ IsScalar(Get(call.arg, S_order_by))
  /\ StrictEq(Get(call.arg, S_order_by), Get(call.arg2, S_order_by))
  /\ Get(listParams, S_order_by) = Get(listConfig.defaultParams, S_order_by)

\* C5: addParams with a scalar v for a non-default key k that oldParams has:
\* the result holds the old sequence with v appended, or [old, v] for a
\* scalar old value.
C5_Accumulation ==
  call.op = "addParams"
    => \A key \in KeySet(call.arg2) :
         (/\ ~Has(call.config.defaultParams, key)
          /\ Has(call.arg, key)
          /\ IsScalar(Get(call.arg2, key))
          /\ (IsArray(Get(call.arg, key)) \/ IsScalar(Get(call.arg, key))))
           => Get(call.ret, key) =
                IF IsArray(Get(call.arg, key))
                  THEN Arr(Append(Get(call.arg, key).v, Get(call.arg2, key)))
                  ELSE Arr(<<Get(call.arg, key), Get(call.arg2, key)>>)

\* the elements of field key of oldParams other than the removed value
OthersOf(key) ==
  SelectSeq(Elements(Get(call.arg, key)), LAMBDA x : ~StrictEq(x, Get(call.arg2, key)))

\* C6: removeParams of an element (k, v) of oldParams: k holds the other
\* elements in their order; with no other element, k is gone, or back at its
\* default when k is a default key.
C6_Removal ==
  call.op = "removeParams"
    => \A key \in KeySet(call.arg2) :
         (IsScalar(Get(call.arg2, key)) /\ Occurs(Get(call.arg, key), Get(call.arg2, key)))
           => IF OthersOf(key) # <<>>
                THEN Elements(Get(call.ret, key)) = OthersOf(key)
                ELSE IF Has(call.config.defaultParams, key)
                  THEN Get(call.ret, key) = Get(call.config.defaultParams, key)
                  ELSE ~Has(call.ret, key)

\* a removeParams call that undoes the addParams call before it: the same
\* one-entry object {k: v}, k not a default key, v a scalar that the object P
\* before the two calls does not hold under k, P holding every default key
UndoesAdd ==
  /\ call.op = "removeParams"
  /\ call.prevOp = "addParams"
  /\ call.prevArg2 = call.arg2
  /\ HasEveryDefaultKey(call.config, call.prevArg)
  /\ \A key \in KeySet(call.arg2) :
       /\ ~Has(call.config.defaultParams, key)
       /\ IsScalar(Get(call.arg2, key))
       /\ ~Occurs(Get(call.prevArg, key), Get(call.arg2, key))

\* C10 as claimed: add then remove gives back P: the same keys, the same values.
C10_AddThenRemoveIsIdentity ==
  UndoesAdd => SameObject(call.ret, call.prevArg)

\* C10 amended: add then remove gives what removeParams gives on P with
\* nothing to remove: P with every field collapsed again by removeParams.
C10_AddThenRemoveIsRecollapse ==
  UndoesAdd => SameObject(call.ret, removeParams(call.config, call.prevArg, Obj(<<>>)))

\* C10 witness: the undo of an add to a field holding a sequence of two or
\* more values, which comes back as that sequence.
C10_Witness ==
  /\ UndoesAdd
  /\ IsArray(Get(call.prevArg, S_status))
  /\ Len(Get(call.prevArg, S_status).v) >= 2
  /\ Has(call.arg2, S_status)
  /\ Truthy(Get(call.arg2, S_status))
  /\ Get(call.arg, S_status) # Get(call.prevArg, S_status)
  /\ Get(call.ret, S_status) = Get(call.prevArg, S_status)

(***************************************************************************)
(* Properties of the codec (checked under SpecUrl)                         *)
(***************************************************************************)
\* "o.name=foo"
QueryFoo == Str(<<"o", ".", "n", "a", "m", "e", "=", "f", "o", "o">>)
\* "o.name=foo&o.page=2"
QueryFooPage2 ==
  Str(<<"o", ".", "n", "a", "m", "e", "=", "f", "o", "o", "&",
        "o", ".", "p", "a", "g", "e", "=", "2">>)

ParsedPage2Foo ==
  call.op = "parseQueryString" /\ call.config = cfgO /\ call.arg = QueryPage2Foo

EncodedPage2Foo ==
  call.op = "encodeNonDefaultQueryString" /\ call.config = cfgO /\ call.arg = ParamsPage2Foo

\* C1 as claimed: with getQSConfig("o"), "o.page=2&o.name=foo" decodes to
\* {page:2, page_size:5, order_by:"name", name:"foo"}, and that object encodes
\* to "o.name=foo".
C1_EndToEndAsClaimed ==
  /\ ParsedPage2Foo => call.ret = ParamsPage2Foo
  /\ EncodedPage2Foo => call.ret = QueryFoo

\* C1 amended: the decode is as claimed, and the object encodes to
\* "o.name=foo&o.page=2": page 2 is not the default page 1 and is kept.
C1_EndToEnd ==
  /\ ParsedPage2Foo => call.ret = ParamsPage2Foo
  /\ EncodedPage2Foo => call.ret = QueryFooPage2

\* C1 witness: the list decoded a query string to that object and encoded it.
C1_Witness ==
  /\ EncodedPage2Foo
  /\ steps >= 1
  /\ listParams = ParamsPage2Foo
  /\ search = QueryFooPage2

IsIntegerField(config, key) ==
  \E i \in 1..Len(config.integerFields.v) : config.integerFields.v[i] = Str(key)

\* a scalar a query string can carry for the field: a string, or a number on
\* an integer field
CarriedScalar(config, key, x) ==
  x.t = "str" \/ (x.t = "num" /\ IsIntegerField(config, key))

\* a value the grammar of query strings can tell from every other one: such a
\* scalar, or a sequence of two or more of them
Carried(config, key, x) ==
  \/ CarriedScalar(config, key, x)
  \/ /\ IsArray(x)
     /\ Len(x.v) >= 2
     /\ \A i \in 1..Len(x.v) : CarriedScalar(config, key, x.v[i])

\* the integer coercion of the fields listed in integerFields
Coerced(config, key, x) ==
  IF ~IsIntegerField(config, key) THEN x
  ELSE IF IsArray(x) THEN Arr([i \in 1..Len(x.v) |-> parseInt(x.v[i])])
  ELSE parseInt(x)

\* C4: parseQueryString(config, encodeNonDefaultQueryString(config, P)) maps
\* every field of P that is not a default field to the value it has in P,
\* apart from the integer coercion; stated for the values a query string can
\* carry (strings, and sequences of two or more strings).
C4_RoundTrip ==
  (/\ call.op = "parseQueryString"
   /\ call.who = "list"
   /\ call.src.kind = "encoded"
   /\ call.src.params.t = "obj")
    => \A key \in KeySet(call.src.params) :
         (/\ ~Has(call.config.defaultParams, key)
          /\ Carried(call.config, key, Get(call.src.params, key)))
           => /\ call.ret.t = "obj"
              /\ Get(call.ret, key) = Coerced(call.config, key, Get(call.src.params, key))

\* a namespace without "." whose characters encodeURIComponent leaves alone
PlainNamespace(namespace) ==
  \A i \in 1..Len(namespace.v) :
    namespace.v[i] # "." /\ Escape(namespace.v[i]) = <<namespace.v[i]>>

\* a decode of the string joined from the encodings of both lists
DecodedJoined == call.op = "parseQueryString" /\ call.src.kind = "joined"

\* the decode of the decoding list's own encoding alone
DecodedAlone ==
  parseQueryString(
    call.config,
    encodeNonDefaultQueryString(
      call.config,
      IF call.who = "list" THEN call.src.params ELSE call.src.other))

\* C7 as claimed: for any two distinct namespaces, each list decodes the
\* joined string to what it decodes its own encoding to.
C7_IsolationAsClaimed == DecodedJoined => call.ret = DecodedAlone

\* C7 amended: the same for two distinct namespaces that hold no "." and no
\* character that percent-encoding changes.
C7_Isolation ==
  (/\ DecodedJoined
   /\ PlainNamespace(listConfig.namespace)
   /\ PlainNamespace(otherConfig.namespace))
    => call.ret = DecodedAlone

\* C7 witness: the first list decodes a joined string in which both lists
\* have a field, and gets its own field and none of the other list's.
C7_Witness ==
  /\ DecodedJoined
  /\ call.who = "list"
  /\ PlainNamespace(listConfig.namespace)
  /\ PlainNamespace(otherConfig.namespace)
  /\ call.src.params.t = "obj"
  /\ Get(call.src.params, S_status) = Str(S_c)
  /\ Get(call.src.other, S_name) = Str(<<"z">>)
  /\ Get(call.ret, S_status) = Str(S_c)
  /\ ~Has(call.ret, S_name)

\* C8: parseQueryString returns a parameter object for every query string,
\* and only getQSConfig without a namespace throws.
C8_DecodeTotal ==
  /\ call.op = "parseQueryString" => call.ret.t = "obj"
  /\ IsThrow(call.ret) => (call.op = "getQSConfig" /\ ~Truthy(call.arg))

\* a pair of the field is in the string encodeNonDefaultQueryString returned
Appears(key) ==
  LET pieces == Split(call.ret.v, "&")
      start == encodeURIComponent(Str(ToString(call.config.namespace) \o <<".">> \o key))
                 \o <<"=">>
  IN \E i \in 1..Len(pieces) : StartsWith(pieces[i], start)

\* a value that encodes to at least one pair
Renders(x) == x.t # "null" /\ (IsArray(x) => x.v # <<>>)

EncodedObject ==
  call.op = "encodeNonDefaultQueryString" /\ call.arg.t = "obj"

\* equality as the claim's example has it: every element of the default
\* occurs in the current value, so that [a,b] equals the default [a]
EqualsDefaultAsClaimed(current, default) ==
  IF IsArray(current) /\ IsArray(default)
    THEN \A i \in 1..Len(default.v) : \E j \in 1..Len(current.v) : current.v[j] = default.v[i]
    ELSE current.t = default.t /\ current.t \in {"str", "num"} /\ current.v = default.v

\* equality as the code has it: every element of the current value occurs in
\* the default, so that [a] equals the default [a,b]
EqualsDefault(current, default) ==
  IF IsArray(current) /\ IsArray(default)
    THEN \A i \in 1..Len(current.v) : \E j \in 1..Len(default.v) : default.v[j] = current.v[i]
    ELSE current.t = default.t /\ current.t \in {"str", "num"} /\ current.v = default.v

\* C9 as claimed: a field is left out of the string exactly when it has a
\* default that its value equals, a value [a,b] being equal to the default [a].
C9_ElisionAsClaimed ==
  EncodedObject
    => \A key \in KeySet(call.arg) :
         Renders(Get(call.arg, key))
           => (Appears(key) <=>
                 ~(/\ Has(call.config.defaultParams, key)
                   /\ EqualsDefaultAsClaimed(Get(call.arg, key),
                                             Get(call.config.defaultParams, key))))

\* C9 amended: a field is left out exactly when it has a default that its
\* value equals, a value [a] being equal to the default [a,b] and a value
\* [a,b] not to the default [a]; a null or an empty sequence gives no pair.
C9_Elision ==
  EncodedObject
    => \A key \in KeySet(call.arg) :
         Appears(key) <=>
           /\ Renders(Get(call.arg, key))
           /\ ~(/\ Has(call.config.defaultParams, key)
                /\ EqualsDefault(Get(call.arg, key), Get(call.config.defaultParams, key)))

\* C9 witness: the value [a] of a field whose default is [a,b] is left out,
\* and the field status without a default is kept.
C9_Witness ==
  /\ EncodedObject
  /\ Get(call.config.defaultParams, S_order_by) = Arr(<<Str(S_a), Str(S_b)>>)
  /\ Get(call.arg, S_order_by) = Arr(<<Str(S_a)>>)
  /\ ~Appears(S_order_by)
  /\ Has(call.arg, S_status)
  /\ Appears(S_status)

====
